---- MODULE Spec2Model ----
(***************************************************************************)
(* Model of two scattering components of appleseed:                        *)
(*                                                                         *)
(*  - NormalizedDiffusionBSSRDF (normalizeddiffusionbssrdf.cpp):           *)
(*    evaluate_inputs, evaluate, do_sample and do_pdf acting on one        *)
(*    NormalizedDiffusionBSSRDFInputValues block during one shading        *)
(*    invocation.                                                          *)
(*  - the rough_glass OSL surface shader.                                  *)
(*                                                                         *)
(* Numbers are fixed point: indices of refraction are in tenths,           *)
(* reflectances in hundredths, variates are numerators over VariateDen.    *)
(* A quotient is kept as the pair (numerator, denominator) so that a/b and *)
(* b/a are different values.  The closed-form profile functions of         *)
(* foundation/math/sss.h and the OSL closures are kept as applications     *)
(* (records naming the function and holding its arguments).                *)
(***************************************************************************)
EXTENDS Integers, Sequences, FiniteSets, TLC

VARIABLES phase, bound, values, trace, value, sample, point, sample_ret,
          pdf_ret, shading

vars == <<phase, bound, values, trace, value, sample, point, sample_ret,
          pdf_ret, shading>>

bssrdf_vars == <<phase, bound, values, trace, value, sample, point,
                 sample_ret, pdf_ret>>

-----------------------------------------------------------------------------
(* Bounds of the model.                                                    *)

\* Number of bands of a spectral Spectrum (any number other than 3).
NumBands == 4

\* Variates of the sampling context are k / VariateDen, k in 0..VariateDen-1.
VariateDen == 8

-----------------------------------------------------------------------------
(* Spectrum: a sequence of samples, RGB (3 samples) or spectral.           *)

RGBSamples == 3

is_rgb(s) == Len(s) = RGBSamples

is_spectral(s) == Len(s) = NumBands

\* Spectrum::upgrade(source, dest): an RGB source becomes a spectral value,
\* a spectral source is copied.  Band i takes the RGB primary of its third
\* of the range (an abstraction of the RGB-to-spectrum transform).
upgrade(source) ==
    IF is_rgb(source)
    THEN [i \in 1..NumBands |-> source[(((i - 1) * RGBSamples) \div NumBands) + 1]]
    ELSE source

\* Spectrum::convert_to_rgb(lighting_conditions): a spectral value becomes
\* three samples, an RGB value is returned as is.  Primary c takes the first
\* band of its third of the range (an abstraction of spectrum-to-RGB).
convert_to_rgb(s) ==
    IF is_rgb(s)
    THEN s
    ELSE [c \in 1..RGBSamples |-> s[(((c - 1) * NumBands) \div RGBSamples) + 1]]

\* operator[] with a 0-based index.  A read past size() never happens in the
\* program as written; it is reported as -1.
At(s, i) == IF (i + 1) \in DOMAIN s THEN s[i + 1] ELSE -1

\* a / b on floating point values.
Div(a, b) == [num |-> a, den |-> b]

-----------------------------------------------------------------------------
(* foundation/math/sss.h and the sampling context.                         *)

normalized_diffusion_s(a) == [fn |-> "normalized_diffusion_s", a |-> a]

normalized_diffusion_r(r, ld, s, a) ==
    [fn |-> "normalized_diffusion_r", r |-> r, ld |-> ld, s |-> s, a |-> a]

normalized_diffusion_sample(s, ld, u) ==
    [fn |-> "normalized_diffusion_sample", s |-> s, ld |-> ld, u |-> u]

normalized_diffusion_pdf(r, s, ld) ==
    [fn |-> "normalized_diffusion_pdf", r |-> r, s |-> s, ld |-> ld]

\* SamplingContext::split_in_place(dimension, sample_count).
split_in_place(ctx, dimension, sample_count) ==
    [m_dimension |-> dimension, m_sample_count |-> sample_count,
     m_sample_index |-> 0]

\* SamplingContext::next_vector2<N>() advances the cursor by one sample.
next_vector2(ctx) == [ctx EXCEPT !.m_sample_index = @ + 1]

\* Mutant of truncate_scaled: rounds to nearest instead of truncating.
truncate_scaled_rounding(k, n) == ((k * n) + (VariateDen \div 2)) \div VariateDen

\* truncate<size_t>(u * n) for the variate u = k / VariateDen.
truncate_scaled(k, n) == (k * n) \div VariateDen

-----------------------------------------------------------------------------
(* Inputs of one shading invocation.                                       *)

Patterns(n, lo, hi) ==
    { [i \in 1..n |-> hi],
      [i \in 1..n |-> IF i % 2 = 1 THEN lo ELSE hi] }

Reflectances == Patterns(RGBSamples, 20, 80) \cup Patterns(NumBands, 20, 80)

MeanFreePaths == Patterns(RGBSamples, 1, 2) \cup Patterns(NumBands, 1, 2)

Multipliers == {1, 3}

FromIors == {10, 13}

ToIors == {13}

InputValuesSet ==
    [m_reflectance : Reflectances,
     m_mean_free_path : MeanFreePaths,
     m_mean_free_path_multiplier : Multipliers,
     m_from_ior : FromIors,
     m_to_ior : ToIors]

\* The block of memory before evaluate_inputs has written it.
UnboundValues ==
    [m_reflectance |-> << >>, m_mean_free_path |-> << >>,
     m_mean_free_path_multiplier |-> 0, m_from_ior |-> 0, m_to_ior |-> 0]

\* Positions of the two shading points on a line; dist is their distance.
Points == {0, 2}

norm(d) == IF d < 0 THEN 0 - d ELSE d

Variates == 0..(VariateDen - 1)

RadiusVariates == {0, VariateDen - 1}

AngleVariates == {VariateDen - 1}

\* The BSSRDFSample handed to sample() by the integrator.
FreshSample ==
    [is_directional |-> TRUE, eta |-> Div(0, 1), channel |-> 0,
     sampling_context |->
        [m_dimension |-> 0, m_sample_count |-> 0, m_sample_index |-> 0]]

-----------------------------------------------------------------------------
(* NormalizedDiffusionBSSRDF::evaluate_inputs.  The steps act on the input *)
(* block together with the list of the statements executed so far.         *)

\* BSSRDF::evaluate_inputs: the input evaluator writes the declared inputs
\* into the block.
BSSRDF_evaluate_inputs(st, inputs) ==
    [values |-> inputs, trace |-> Append(st.trace, "bind")]

\* static_cast<float>(double): a float holds 24 significant bits, so integers
\* below 2^24 are kept and those of the next binade lose their last bit.
static_cast_float(x) == IF x < 2^24 THEN x ELSE x - (x % 2)

\* Mutant of scale_mean_free_path: the multiplier is applied twice.
scale_mean_free_path_twice(st) ==
    [values |->
        [st.values EXCEPT !.m_mean_free_path =
            [i \in DOMAIN @ |->
                (@[i] * static_cast_float(st.values.m_mean_free_path_multiplier))
                    * static_cast_float(st.values.m_mean_free_path_multiplier)]],
     trace |-> Append(st.trace, "scale")]

\* values->m_mean_free_path *= static_cast<float>(multiplier)
scale_mean_free_path(st) ==
    [values |->
        [st.values EXCEPT !.m_mean_free_path =
            [i \in DOMAIN @ |->
                @[i] * static_cast_float(st.values.m_mean_free_path_multiplier)]],
     trace |-> Append(st.trace, "scale")]

\* Mutant of reconcile: the else branch (conversion to RGB) is missing.
reconcile_upgrade_only(st) ==
    [values |->
        IF Len(st.values.m_mean_free_path) # Len(st.values.m_reflectance)
        THEN IF is_spectral(st.values.m_mean_free_path)
             THEN [st.values EXCEPT !.m_reflectance = upgrade(@)]
             ELSE st.values
        ELSE st.values,
     trace |-> Append(st.trace, "reconcile")]

\* Mutant of reconcile: a spectral mean free path is converted to RGB
\* instead of the reflectance being upgraded.
reconcile_downgrade_mean_free_path(st) ==
    [values |->
        IF Len(st.values.m_mean_free_path) # Len(st.values.m_reflectance)
        THEN IF is_spectral(st.values.m_mean_free_path)
             THEN [st.values EXCEPT !.m_mean_free_path = convert_to_rgb(@)]
             ELSE [st.values EXCEPT !.m_reflectance = convert_to_rgb(@)]
        ELSE st.values,
     trace |-> Append(st.trace, "reconcile")]

\* Mutant of reconcile: the size test is missing and the reflectance is
\* always converted to RGB.
reconcile_always_rgb(st) ==
    [values |-> [st.values EXCEPT !.m_reflectance = convert_to_rgb(@)],
     trace |-> Append(st.trace, "reconcile")]

\* if (mean_free_path.size() != reflectance.size()) { ... }
reconcile(st) ==
    [values |->
        IF Len(st.values.m_mean_free_path) # Len(st.values.m_reflectance)
        THEN IF is_spectral(st.values.m_mean_free_path)
             THEN [st.values EXCEPT !.m_reflectance = upgrade(@)]
             ELSE [st.values EXCEPT !.m_reflectance = convert_to_rgb(@)]
        ELSE st.values,
     trace |-> Append(st.trace, "reconcile")]

evaluate_inputs(st, inputs) ==
    reconcile(scale_mean_free_path(BSSRDF_evaluate_inputs(st, inputs)))

-----------------------------------------------------------------------------
(* evaluate, do_sample, do_pdf.  Each returns the input block as the call  *)
(* leaves it together with what the call writes or returns.                *)

\* Mutant of evaluate: the multiplier is applied to the stored mean free
\* path on every call.
evaluate_rescaling(data, outgoing_point, incoming_point) ==
    LET dist == norm(incoming_point - outgoing_point)
        size == Len(data.m_reflectance)
        scaled == [data EXCEPT !.m_mean_free_path =
                      [i \in DOMAIN @ |-> @[i] * data.m_mean_free_path_multiplier]]
    IN  [data |-> scaled,
         value |->
            [k \in 1..size |->
                LET a  == At(scaled.m_reflectance, k - 1)
                    s  == normalized_diffusion_s(a)
                    ld == At(scaled.m_mean_free_path, k - 1)
                IN  normalized_diffusion_r(dist, ld, s, a)]]

evaluate(data, outgoing_point, incoming_point) ==
    LET dist == norm(incoming_point - outgoing_point)
        size == Len(data.m_reflectance)
    IN  [data |-> data,
         value |->
            [k \in 1..size |->
                LET a  == At(data.m_reflectance, k - 1)
                    s  == normalized_diffusion_s(a)
                    ld == At(data.m_mean_free_path, k - 1)
                IN  normalized_diffusion_r(dist, ld, s, a)]]

\* Mutant of do_sample: eta is from_ior / to_ior.
do_sample_inverse_eta(data, smp, s) ==
    LET ctx     == next_vector2(split_in_place(smp.sampling_context, 3, 1))
        channel == truncate_scaled(s[1], Len(data.m_reflectance))
        radius  == normalized_diffusion_sample(
                       normalized_diffusion_s(At(data.m_reflectance, channel)),
                       At(data.m_mean_free_path, channel),
                       s[2])
        phi     == [fn |-> "TwoPi*", u |-> s[3]]
    IN  [data |-> data,
         sample |->
            [is_directional |-> FALSE,
             eta |-> Div(data.m_from_ior, data.m_to_ior),
             channel |-> channel,
             sampling_context |-> ctx],
         point |-> << [radius |-> radius, fn |-> "cos", phi |-> phi],
                      [radius |-> radius, fn |-> "sin", phi |-> phi] >>,
         ret |-> TRUE]

\* s is the vector drawn from the sampling context.
do_sample(data, smp, s) ==
    LET ctx     == next_vector2(split_in_place(smp.sampling_context, 3, 1))
        channel == truncate_scaled(s[1], Len(data.m_reflectance))
        radius  == normalized_diffusion_sample(
                       normalized_diffusion_s(At(data.m_reflectance, channel)),
                       At(data.m_mean_free_path, channel),
                       s[2])
        phi     == [fn |-> "TwoPi*", u |-> s[3]]
    IN  [data |-> data,
         sample |->
            [is_directional |-> FALSE,
             eta |-> Div(data.m_to_ior, data.m_from_ior),
             channel |-> channel,
             sampling_context |-> ctx],
         point |-> << [radius |-> radius, fn |-> "cos", phi |-> phi],
                      [radius |-> radius, fn |-> "sin", phi |-> phi] >>,
         ret |-> TRUE]

do_pdf(data, channel, dist) ==
    [data |-> data,
     ret |-> normalized_diffusion_pdf(
                 dist,
                 normalized_diffusion_s(At(data.m_reflectance, channel)),
                 At(data.m_mean_free_path, channel))]

-----------------------------------------------------------------------------
(* One shading invocation of the BSSRDF.                                   *)

BssrdfInit ==
    /\ phase = "uninitialized"
    /\ bound = UnboundValues
    /\ values = UnboundValues
    /\ trace = << >>
    /\ value = << >>
    /\ sample = FreshSample
    /\ point = << >>
    /\ sample_ret = FALSE
    /\ pdf_ret = << >>

EvaluateInputs ==
    /\ phase = "uninitialized"
    /\ \E inputs \in InputValuesSet :
          LET st == evaluate_inputs([values |-> values, trace |-> trace], inputs)
          IN  /\ bound' = inputs
              /\ values' = st.values
              /\ trace' = st.trace
    /\ phase' = "ready"
    /\ UNCHANGED <<value, sample, point, sample_ret, pdf_ret, shading>>

Evaluate ==
    /\ phase = "ready"
    /\ \E outgoing_point \in Points, incoming_point \in Points :
          LET r == evaluate(values, outgoing_point, incoming_point)
          IN  /\ values' = r.data
              /\ value' = r.value
    /\ UNCHANGED <<phase, bound, trace, sample, point, sample_ret, pdf_ret, shading>>

Sample ==
    /\ phase = "ready"
    /\ \E s0 \in Variates, s1 \in RadiusVariates, s2 \in AngleVariates :
          LET r == do_sample(values, sample, <<s0, s1, s2>>)
          IN  /\ values' = r.data
              /\ sample' = r.sample
              /\ point' = r.point
              /\ sample_ret' = r.ret
    /\ UNCHANGED <<phase, bound, trace, value, pdf_ret, shading>>

\* The caller passes a channel of the reflectance and a distance.
Pdf ==
    /\ phase = "ready"
    /\ \E channel \in 0..(Len(values.m_reflectance) - 1), dist \in {0, 2} :
          LET r == do_pdf(values, channel, dist)
          IN  /\ values' = r.data
              /\ pdf_ret' = << [channel |-> channel, density |-> r.ret] >>
    /\ UNCHANGED <<phase, bound, trace, value, sample, point, sample_ret, shading>>

-----------------------------------------------------------------------------
(* The rough_glass surface shader.                                         *)

Distributions == {"specular", "beckmann", "ggx"}

\* roughness in thousandths, indices of refraction in tenths.
Roughnesses == {25, 100}

MaterialIors == {15, 13}

\* The value of the attribute path:ray_ior; << >> when the renderer does not
\* provide it, <<x>> when it does.
RayIorAttribute == {<< >>, <<10>>, <<13>>}

\* What a float that was declared and never assigned may hold.
UninitializedFloats == {0, 10, 27}

Normals == {"N0", "N1"}

\* getattribute(name, var): writes var and returns 1 when the attribute
\* exists, leaves var alone and returns 0 when it does not.
getattribute(attribute, var) ==
    IF attribute # << >>
    THEN [ret |-> 1, var |-> attribute[1]]
    ELSE [ret |-> 0, var |-> var]

\* Mutant of resolve_iors: the two branches are exchanged.
resolve_iors_swapped(is_backfacing, ior, attribute, uninit_from, uninit_to) ==
    IF ~is_backfacing
    THEN [from_ior |-> ior,
          to_ior |-> getattribute(attribute, uninit_to).var]
    ELSE [from_ior |-> getattribute(attribute, uninit_from).var,
          to_ior |-> ior]

\* Lines 6-18: uninit_from and uninit_to are what the two declared floats
\* hold before the branch assigns them.
resolve_iors(is_backfacing, ior, attribute, uninit_from, uninit_to) ==
    IF is_backfacing
    THEN [from_ior |-> ior,
          to_ior |-> getattribute(attribute, uninit_to).var]
    ELSE [from_ior |-> getattribute(attribute, uninit_from).var,
          to_ior |-> ior]

\* fresnel(I, N, eta, Kr, Kt) writes Kr and Kt.
fresnel(I, N, eta) ==
    [Kr |-> [fn |-> "fresnel.Kr", I |-> I, N |-> N, eta |-> eta],
     Kt |-> [fn |-> "fresnel.Kt", I |-> I, N |-> N, eta |-> eta]]

\* Mutant of closure_weight: the Fresnel weights are exchanged.
closure_weight_swapped(distribution, roughness, N, eta, Kr, Kt) ==
    IF distribution = "specular"
    THEN << [weight |-> Kt,
             closure |-> [fn |-> "reflection", N |-> N]],
            [weight |-> Kr,
             closure |-> [fn |-> "refraction", N |-> N, eta |-> eta]] >>
    ELSE << [weight |-> Kt,
             closure |-> [fn |-> "microfacet", distribution |-> distribution,
                          N |-> N, roughness |-> roughness, eta |-> eta,
                          refract |-> 0]],
            [weight |-> Kr,
             closure |-> [fn |-> "microfacet", distribution |-> distribution,
                          N |-> N, roughness |-> roughness, eta |-> eta,
                          refract |-> 1]] >>

\* Lines 25-32: the closure is the sum of two weighted closures, kept as the
\* pair of its terms.
closure_weight(distribution, roughness, N, eta, Kr, Kt) ==
    IF distribution = "specular"
    THEN << [weight |-> Kr,
             closure |-> [fn |-> "reflection", N |-> N]],
            [weight |-> Kt,
             closure |-> [fn |-> "refraction", N |-> N, eta |-> eta]] >>
    ELSE << [weight |-> Kr,
             closure |-> [fn |-> "microfacet", distribution |-> distribution,
                          N |-> N, roughness |-> roughness, eta |-> eta,
                          refract |-> 0]],
            [weight |-> Kt,
             closure |-> [fn |-> "microfacet", distribution |-> distribution,
                          N |-> N, roughness |-> roughness, eta |-> eta,
                          refract |-> 1]] >>

\* in is the record of the shader's parameters, globals and attribute, and of
\* what its two declared floats hold before they are assigned.
rough_glass_shader(in) ==
    LET distribution == in.distribution
        roughness == in.roughness
        ior == in.ior
        is_backfacing == in.backfacing
        attribute == in.attribute
        I == in.I
        N == in.N
        iors == resolve_iors(is_backfacing, ior, attribute,
                             in.uninit_from, in.uninit_to)
        eta  == Div(iors.from_ior, iors.to_ior)
        K    == fresnel(I, N, eta)
    IN  [done |-> TRUE,
         distribution |-> distribution, roughness |-> roughness, ior |-> ior,
         backfacing |-> is_backfacing, attribute |-> attribute,
         I |-> I, N |-> N,
         from_ior |-> iors.from_ior, to_ior |-> iors.to_ior,
         eta |-> eta, Kr |-> K.Kr, Kt |-> K.Kt,
         Ci |-> closure_weight(distribution, roughness, N, eta, K.Kr, K.Kt)]

\* Before the shader has run at the shading point.
NotShaded ==
    [done |-> FALSE,
     distribution |-> "specular", roughness |-> 25, ior |-> 15,
     backfacing |-> FALSE, attribute |-> << >>, I |-> "I", N |-> "N0",
     from_ior |-> 0, to_ior |-> 0, eta |-> Div(0, 0),
     Kr |-> fresnel("I", "N0", Div(0, 0)).Kr,
     Kt |-> fresnel("I", "N0", Div(0, 0)).Kt,
     Ci |-> << >>]

rough_glass ==
    /\ ~shading.done
    /\ \E distribution \in Distributions, roughness \in Roughnesses,
          ior \in MaterialIors, is_backfacing \in BOOLEAN,
          attribute \in RayIorAttribute,
          uninit_from \in UninitializedFloats, uninit_to \in UninitializedFloats,
          N \in Normals :
          shading' = rough_glass_shader(
                        [distribution |-> distribution, roughness |-> roughness,
                         ior |-> ior, backfacing |-> is_backfacing,
                         attribute |-> attribute, uninit_from |-> uninit_from,
                         uninit_to |-> uninit_to, I |-> "I", N |-> N])
    /\ UNCHANGED bssrdf_vars

-----------------------------------------------------------------------------
(* Specifications.                                                         *)

Init ==
    /\ BssrdfInit
    /\ shading = NotShaded

Next ==
    \/ EvaluateInputs
    \/ Evaluate
    \/ Sample
    \/ Pdf

\* One shading invocation of the normalized diffusion BSSRDF.
Spec == Init /\ [][Next]_vars

GlassNext == rough_glass

\* Executions of the rough_glass shader.
GlassSpec == Init /\ [][GlassNext]_vars

-----------------------------------------------------------------------------
(* Properties of evaluate_inputs.                                          *)

Ready == phase = "ready"

EvaluateActed == value # << >>

SampleActed == sample # FreshSample

PdfActed == pdf_ret # << >>

SameRepresentation(a, b) ==
    /\ Len(a) = Len(b)
    /\ is_rgb(a) \/ is_spectral(a)

\* C1: after evaluate_inputs, whatever the representations the inputs were
\* bound with, reflectance and mean_free_path have the same number of
\* channels (both RGB or both spectral), and no read of evaluate, do_sample
\* or do_pdf falls outside either of them.
C1_MatchingRepresentations ==
    Ready =>
        /\ SameRepresentation(values.m_reflectance, values.m_mean_free_path)
        /\ EvaluateActed =>
              /\ Len(value) = Len(values.m_mean_free_path)
              /\ \A k \in DOMAIN value : value[k].a # -1 /\ value[k].ld # -1
        /\ SampleActed =>
              /\ point[1].radius.s.a # -1
              /\ point[1].radius.ld # -1
        /\ PdfActed =>
              /\ pdf_ret[1].density.s.a # -1
              /\ pdf_ret[1].density.ld # -1

\* C1 witness: the inputs were bound as a spectral reflectance and an RGB
\* mean free path, and evaluate, sample and pdf have all run on the result.
C1_Witness ==
    /\ Ready
    /\ is_spectral(bound.m_reflectance)
    /\ is_rgb(bound.m_mean_free_path)
    /\ EvaluateActed /\ SampleActed /\ PdfActed

Scaled(k) == bound.m_mean_free_path[k] * bound.m_mean_free_path_multiplier

\* C2: evaluate_inputs executes base-class binding, then the scaling of
\* mean_free_path, then the reconciliation, in that order; every channel of
\* mean_free_path is the bound value times the multiplier (applied once);
\* nothing is read by evaluate, do_sample or do_pdf before that, and what
\* they read afterwards is the scaled value.
C2_ScaledOnceInOrder ==
    /\ ~Ready => (trace = << >> /\ ~EvaluateActed /\ ~SampleActed /\ ~PdfActed)
    /\ Ready =>
          /\ trace = <<"bind", "scale", "reconcile">>
          /\ DOMAIN values.m_mean_free_path = DOMAIN bound.m_mean_free_path
          /\ \A k \in DOMAIN values.m_mean_free_path :
                values.m_mean_free_path[k] = Scaled(k)
          /\ EvaluateActed => \A k \in DOMAIN value : value[k].ld = Scaled(k)
          /\ SampleActed => point[1].radius.ld = Scaled(sample.channel + 1)
          /\ PdfActed => pdf_ret[1].density.ld = Scaled(pdf_ret[1].channel + 1)

\* C2 witness: a multiplier other than 1 was bound and all three operations
\* have read the inputs.
C2_Witness ==
    /\ Ready
    /\ bound.m_mean_free_path_multiplier = 3
    /\ EvaluateActed /\ SampleActed /\ PdfActed

Mismatched == Len(bound.m_reflectance) # Len(bound.m_mean_free_path)

\* C3 as stated: when the bound representations differ, either an RGB
\* reflectance was upgraded to spectral (mean_free_path being spectral), or
\* mean_free_path was brought down to RGB with the reflectance left as
\* bound; both end with the same length.
C3_Original ==
    (Ready /\ Mismatched) =>
        /\ \/ /\ is_rgb(bound.m_reflectance)
              /\ is_spectral(bound.m_mean_free_path)
              /\ is_spectral(values.m_reflectance)
              /\ is_spectral(values.m_mean_free_path)
           \/ /\ is_rgb(values.m_mean_free_path)
              /\ values.m_reflectance = bound.m_reflectance
        /\ Len(values.m_reflectance) = Len(values.m_mean_free_path)

\* C3 amended: when the bound representations differ, the reflectance alone
\* changes representation: an RGB reflectance is upgraded to spectral when
\* mean_free_path is spectral, a spectral reflectance is converted to RGB
\* when mean_free_path is RGB; mean_free_path keeps its representation and
\* both end with the same length.
C3_ReflectanceReconciled ==
    (Ready /\ Mismatched) =>
        /\ \/ /\ is_rgb(bound.m_reflectance)
              /\ is_spectral(bound.m_mean_free_path)
              /\ values.m_reflectance = upgrade(bound.m_reflectance)
              /\ is_spectral(values.m_reflectance)
           \/ /\ is_spectral(bound.m_reflectance)
              /\ is_rgb(bound.m_mean_free_path)
              /\ values.m_reflectance = convert_to_rgb(bound.m_reflectance)
              /\ is_rgb(values.m_reflectance)
        /\ Len(values.m_mean_free_path) = Len(bound.m_mean_free_path)
        /\ Len(values.m_reflectance) = Len(values.m_mean_free_path)

\* C3 witness: a spectral reflectance met an RGB mean free path and was
\* converted to RGB.
C3_Witness ==
    /\ Ready
    /\ is_spectral(bound.m_reflectance)
    /\ is_rgb(bound.m_mean_free_path)
    /\ is_rgb(values.m_reflectance)

\* C4: when the inputs are bound with matching representations, the
\* reconciliation leaves the lengths (representations) of reflectance and
\* mean_free_path as they were bound.
C4_ReconcileIdempotent ==
    (Ready /\ ~Mismatched) =>
        /\ Len(values.m_reflectance) = Len(bound.m_reflectance)
        /\ Len(values.m_mean_free_path) = Len(bound.m_mean_free_path)
        /\ is_spectral(values.m_reflectance) <=> is_spectral(bound.m_reflectance)
        /\ is_spectral(values.m_mean_free_path) <=> is_spectral(bound.m_mean_free_path)

\* C4 witness: both inputs were bound spectral and evaluate_inputs returned.
C4_Witness ==
    /\ Ready
    /\ is_spectral(bound.m_reflectance)
    /\ is_spectral(bound.m_mean_free_path)

-----------------------------------------------------------------------------
(* Properties of evaluate, do_sample and do_pdf.                           *)

\* C5: once do_sample has run, whatever the inputs and the variates, it has
\* returned true, the sample is not directional and its eta is
\* to_ior / from_ior.
C5_SampleSucceeds ==
    SampleActed =>
        /\ sample_ret = TRUE
        /\ sample.is_directional = FALSE
        /\ sample.eta = [num |-> values.m_to_ior, den |-> values.m_from_ior]

\* C5 witness: do_sample has run on inputs whose two indices of refraction
\* differ.
C5_Witness ==
    /\ SampleActed
    /\ values.m_to_ior # values.m_from_ior

\* C9: the channel chosen by do_sample is an index of both reflectance and
\* mean_free_path; the radius is drawn with shape_param(reflectance[channel])
\* and mean_free_path[channel], and do_pdf called with that channel uses the
\* same pair.
C9_ChannelInRange ==
    SampleActed =>
        /\ sample.channel \in 0..(Len(values.m_reflectance) - 1)
        /\ (sample.channel + 1) \in DOMAIN values.m_reflectance
        /\ (sample.channel + 1) \in DOMAIN values.m_mean_free_path
        /\ point[1].radius.s =
              normalized_diffusion_s(values.m_reflectance[sample.channel + 1])
        /\ point[1].radius.ld = values.m_mean_free_path[sample.channel + 1]
        /\ (PdfActed /\ pdf_ret[1].channel = sample.channel) =>
              /\ pdf_ret[1].density.s = point[1].radius.s
              /\ pdf_ret[1].density.ld = point[1].radius.ld

\* C9 witness: the last channel of inputs whose channels differ was sampled
\* and do_pdf was called with it.
C9_Witness ==
    /\ SampleActed /\ PdfActed
    /\ sample.channel = Len(values.m_reflectance) - 1
    /\ pdf_ret[1].channel = sample.channel
    /\ values.m_reflectance[1] # values.m_reflectance[2]
    /\ values.m_mean_free_path[1] # values.m_mean_free_path[2]

\* C10: once the inputs are ready no step changes them; a step that writes
\* the output of evaluate writes nothing else, a step that writes the sample,
\* its sampling context, the point or the result of do_sample writes nothing
\* else, and a step that delivers the result of do_pdf writes nothing else.
C10_InputsReadOnly ==
    [][ Ready =>
          /\ values' = values
          /\ phase' = phase /\ bound' = bound /\ trace' = trace
          /\ (value' # value) =>
                UNCHANGED <<sample, point, sample_ret, pdf_ret>>
          /\ (sample' # sample \/ point' # point \/ sample_ret' # sample_ret) =>
                UNCHANGED <<value, pdf_ret>>
          /\ (pdf_ret' # pdf_ret) =>
                UNCHANGED <<value, sample, point, sample_ret>> ]_vars

\* C10 witness: evaluate, sample and pdf have all run on inputs whose
\* multiplier is not 1, and the inputs are still what evaluate_inputs made.
C10_Witness ==
    /\ Ready
    /\ EvaluateActed /\ SampleActed /\ PdfActed
    /\ values.m_mean_free_path_multiplier = 3
    /\ values = evaluate_inputs([values |-> UnboundValues, trace |-> << >>], bound).values

-----------------------------------------------------------------------------
(* Properties of rough_glass.                                              *)

Found == shading.attribute # << >>

\* C6: when backfacing, from_ior is the ior parameter and to_ior is the
\* value of path:ray_ior (when the attribute exists); when not backfacing,
\* from_ior is the value of path:ray_ior (when it exists) and to_ior is the
\* ior parameter; the eta handed to fresnel, refraction and microfacet is
\* from_ior / to_ior.
C6_IorResolution ==
    shading.done =>
        /\ shading.backfacing =>
              /\ shading.from_ior = shading.ior
              /\ Found => shading.to_ior = shading.attribute[1]
        /\ ~shading.backfacing =>
              /\ Found => shading.from_ior = shading.attribute[1]
              /\ shading.to_ior = shading.ior
        /\ shading.eta = [num |-> shading.from_ior, den |-> shading.to_ior]
        /\ shading.Kr.eta = shading.eta
        /\ shading.Kt.eta = shading.eta
        /\ shading.Ci[2].closure.eta = shading.eta
        /\ (shading.distribution # "specular") =>
              shading.Ci[1].closure.eta = shading.eta

\* C6 witness: the shader ran on a backfacing surface with the attribute
\* present and different from the material ior.
C6_Witness ==
    /\ shading.done
    /\ shading.backfacing
    /\ shading.attribute = <<10>>
    /\ shading.ior = 15
    /\ shading.distribution = "ggx"

\* C7 as stated: when the lookup of path:ray_ior fails, the index of
\* refraction it should have supplied is 1.0 (10 tenths), and eta is not
\* computed from a zero or unassigned value.
C7_DefaultOnFailedLookup ==
    (shading.done /\ ~Found) =>
        /\ (IF shading.backfacing THEN shading.to_ior ELSE shading.from_ior) = 10
        /\ shading.eta.num # 0 /\ shading.eta.den # 0

\* C8: the closure is a sum of two terms, the first weighted by Kr and the
\* second by Kt of fresnel(I, N, eta).  For "specular" the terms are
\* reflection(N) and refraction(N, eta), with no roughness in them; for any
\* other distribution they are microfacet reflection and microfacet
\* refraction of the same distribution, normal, roughness and eta.
C8_TwoLobeWeight ==
    shading.done =>
        /\ Len(shading.Ci) = 2
        /\ shading.Ci[1].weight = shading.Kr
        /\ shading.Ci[2].weight = shading.Kt
        /\ shading.Kr.fn = "fresnel.Kr"
        /\ shading.Kt.fn = "fresnel.Kt"
        /\ (shading.distribution = "specular") =>
              /\ shading.Ci[1].closure = [fn |-> "reflection", N |-> shading.N]
              /\ shading.Ci[2].closure =
                    [fn |-> "refraction", N |-> shading.N, eta |-> shading.eta]
        /\ (shading.distribution # "specular") =>
              /\ \A k \in {1, 2} :
                    /\ shading.Ci[k].closure.fn = "microfacet"
                    /\ shading.Ci[k].closure.distribution = shading.distribution
                    /\ shading.Ci[k].closure.N = shading.N
                    /\ shading.Ci[k].closure.roughness = shading.roughness
                    /\ shading.Ci[k].closure.eta = shading.eta
              /\ shading.Ci[1].closure.refract = 0
              /\ shading.Ci[2].closure.refract = 1

\* C8 witness: the shader ran with the specular distribution and a
\* roughness other than the default.
C8_Witness ==
    /\ shading.done
    /\ shading.distribution = "specular"
    /\ shading.roughness = 100

====
